---- MODULE Spec2Model ----
(***************************************************************************)
(* Model of Tools/data_func.py: the event-to-tensor rasterizers, the       *)
(* hot-pixel filter, the stream normalizer, the binary search and the      *)
(* augmentation helpers.                                                   *)
(*                                                                         *)
(* Conventions.                                                            *)
(*  - A numpy array of rank 1 is a sequence; code index k is sequence      *)
(*    index k+1 (operator At).  A dense grid is a function from the tuple  *)
(*    of its (0-based) coordinates to its value.                           *)
(*  - A floating point value is an exact rational <<n, d>> in lowest terms *)
(*    with d > 0.  Rounding of float32/float64 is not modelled; all values *)
(*    of the model are small dyadic or small-denominator rationals.        *)
(*  - A call of a function that does not keep state is one action.  It     *)
(*    records the caller's arrays before the call (args), the same arrays  *)
(*    after the call (mem), the returned value (ret), the names of the     *)
(*    caller's arrays whose storage the returned arrays share (shared) and *)
(*    the exception that ended the call, if any (exc).                     *)
(*    A behaviour of a specification of such calls is one call from the    *)
(*    idle state (op = "none"): the calls share no state.                  *)
(*  - np_version is the installed numpy: the source pins none, and two of  *)
(*    its calls behave differently across releases (a float used as an     *)
(*    index, np.clip without a_max).                                       *)
(***************************************************************************)
EXTENDS Integers, Sequences, FiniteSets, TLC

VARIABLES op, args, mem, ret, shared, exc,
          np_version,
          event_rate, mask, pc, i, hp, rate0

vars == <<op, args, mem, ret, shared, exc, np_version,
          event_rate, mask, pc, i, hp, rate0>>

callVars == <<op, args, mem, ret, shared, exc>>
hotVars == <<event_rate, mask, pc, i, hp, rate0>>

(***************************************************************************)
(* Bounds of the model.                                                    *)
(***************************************************************************)
\* grid height and width (the source defaults to 180 x 240)
H == 2
W == 2
\* number of temporal bins of a 3D map
Bins == 2
\* longest event list handed to a rasterizer
MaxEvents == 2
\* largest event weight
MaxWeight == 2

(***************************************************************************)
(* Exact rationals.                                                        *)
(***************************************************************************)
Abs(n) == IF n < 0 THEN -n ELSE n

RECURSIVE GCD(_, _)
GCD(a, b) == IF b = 0 THEN a ELSE GCD(b, a % b)

\* n/d in lowest terms, d # 0
Rat(n, d) ==
    LET g == GCD(Abs(n), Abs(d))
        s == IF d < 0 THEN -1 ELSE 1
    IN  <<(s * n) \div g, (s * d) \div g>>

R(n) == <<n, 1>>
RAdd(a, b) == Rat(a[1] * b[2] + b[1] * a[2], a[2] * b[2])
RSub(a, b) == Rat(a[1] * b[2] - b[1] * a[2], a[2] * b[2])
RMul(a, b) == Rat(a[1] * b[1], a[2] * b[2])
RDiv(a, b) == Rat(a[1] * b[2], a[2] * b[1])
RNeg(a) == <<-a[1], a[2]>>
RAbs(a) == <<Abs(a[1]), a[2]>>
RLt(a, b) == a[1] * b[2] < b[1] * a[2]
RLe(a, b) == a[1] * b[2] <= b[1] * a[2]
RMax(a, b) == IF RLt(a, b) THEN b ELSE a

\* ndarray.astype(int): truncation towards zero
astype_int(a) ==
    IF a[1] >= 0 THEN a[1] \div a[2] ELSE -((-a[1]) \div a[2])

(***************************************************************************)
(* numpy array primitives.                                                 *)
(***************************************************************************)
At(array, k) == array[k + 1]
Last(array) == array[Len(array)]

Cells2(size) == (0 .. size[1] - 1) \X (0 .. size[2] - 1)
Cells3(size) == (0 .. size[1] - 1) \X (0 .. size[2] - 1) \X (0 .. size[3] - 1)

\* np.zeros(size)
np_zeros(cells) == [c \in cells |-> R(0)]

\* img[idx] with idx a tuple of index arrays: the gathered values, in order
fancy_get(img, idx) == [k \in 1 .. Len(idx) |-> img[idx[k]]]

\* img[idx] = vals: the values are stored in input order, so that for a
\* coordinate that occurs more than once the last value stays
RECURSIVE fancy_set(_, _, _)
fancy_set(img, idx, vals) ==
    IF idx = <<>> THEN img
    ELSE fancy_set([img EXCEPT ![Head(idx)] = Head(vals)], Tail(idx), Tail(vals))

\* img[idx] += ws.  numpy evaluates it as img[idx] = img[idx] + ws: the
\* right-hand side is gathered once, from img as it was, and then stored
fancy_iadd(img, idx, ws) ==
    LET old == fancy_get(img, idx)
    IN  fancy_set(img, idx, [k \in 1 .. Len(idx) |-> RAdd(old[k], ws[k])])

(***************************************************************************)
(* ev_to_2Dmap, ev_to_3Dmap                                                *)
(***************************************************************************)
ev_to_2Dmap(xs, ys, ws, size, accumulate) ==
    LET img == np_zeros(Cells2(size))
        idx == [k \in 1 .. Len(xs) |-> <<ys[k], xs[k]>>]
    IN  IF accumulate THEN fancy_iadd(img, idx, ws)
        ELSE fancy_set(img, idx, ws)

ev_to_3Dmap(xs, ys, ts, ws, size, accumulate) ==
    LET img == np_zeros(Cells3(size))
        idx == [k \in 1 .. Len(xs) |-> <<astype_int(ts[k]), ys[k], xs[k]>>]
    IN  IF accumulate THEN fancy_iadd(img, idx, ws)
        ELSE fancy_set(img, idx, ws)

(***************************************************************************)
(* Inputs of the rasterizers.                                              *)
(***************************************************************************)
SeqsUpTo(S, n) == UNION {[1 .. m -> S] : m \in 0 .. n}

Weights == {R(w) : w \in 1 .. MaxWeight}
\* bin coordinates handed to ev_to_3Dmap: k and k + 1/2 for every bin k
BinCoords == {Rat(h, 2) : h \in 0 .. 2 * Bins - 1}

NoHot == [event_rate |-> <<>>, mask |-> <<>>, pc |-> "idle", i |-> 0,
          hp |-> <<>>, rate0 |-> <<>>]

HotIdle ==
    /\ event_rate = NoHot.event_rate
    /\ mask = NoHot.mask
    /\ pc = NoHot.pc
    /\ i = NoHot.i
    /\ hp = NoHot.hp
    /\ rate0 = NoHot.rate0

NoCall ==
    /\ op = "none"
    /\ args = <<>>
    /\ mem = <<>>
    /\ ret = <<>>
    /\ shared = {}
    /\ exc = "none"

\* numpy releases, by the behaviour of the two calls that depend on them
NumpyVersions == {"<1.12", "1.12-2.0", ">=2.1"}
\* the release in the specifications none of whose calls depends on it
AnyNumpy == "1.12-2.0"

(***************************************************************************)
(* Scatter: calls of ev_to_2Dmap and ev_to_3Dmap                           *)
(***************************************************************************)
Call_ev_to_2Dmap ==
    /\ op = "none"
    /\ \E n \in 0 .. MaxEvents, accumulate \in BOOLEAN :
       \E xs \in [1 .. n -> 0 .. W - 1], ys \in [1 .. n -> 0 .. H - 1],
          ws \in [1 .. n -> Weights] :
           LET a == [xs |-> xs, ys |-> ys, ws |-> ws, size |-> <<H, W>>,
                     accumulate |-> accumulate]
           IN  /\ op' = "ev_to_2Dmap"
               /\ args' = a
               /\ mem' = a
               /\ ret' = ev_to_2Dmap(xs, ys, ws, <<H, W>>, accumulate)
               /\ shared' = {}
               /\ exc' = "none"
               /\ UNCHANGED <<np_version, hotVars>>

Call_ev_to_3Dmap ==
    /\ op = "none"
    /\ \E n \in 0 .. MaxEvents, accumulate \in BOOLEAN :
       \E xs \in [1 .. n -> 0 .. W - 1], ys \in [1 .. n -> 0 .. H - 1],
          ts \in [1 .. n -> BinCoords], ws \in [1 .. n -> Weights] :
           LET a == [xs |-> xs, ys |-> ys, ts |-> ts, ws |-> ws,
                     size |-> <<Bins, H, W>>, accumulate |-> accumulate]
           IN  /\ op' = "ev_to_3Dmap"
               /\ args' = a
               /\ mem' = a
               /\ ret' = ev_to_3Dmap(xs, ys, ts, ws, <<Bins, H, W>>, accumulate)
               /\ shared' = {}
               /\ exc' = "none"
               /\ UNCHANGED <<np_version, hotVars>>

InitScatter == NoCall /\ HotIdle /\ np_version = AnyNumpy
NextScatter == Call_ev_to_2Dmap \/ Call_ev_to_3Dmap
SpecScatter == InitScatter /\ [][NextScatter]_vars

\* the sum of the weights of the events whose coordinates are c
RECURSIVE SumWhere(_, _, _)
SumWhere(idx, ws, c) ==
    IF idx = <<>> THEN R(0)
    ELSE RAdd(IF Head(idx) = c THEN Head(ws) ELSE R(0),
              SumWhere(Tail(idx), Tail(ws), c))

Idx2(a) == [k \in 1 .. Len(a.xs) |-> <<a.ys[k], a.xs[k]>>]
Idx3(a) == [k \in 1 .. Len(a.xs) |-> <<astype_int(a.ts[k]), a.ys[k], a.xs[k]>>]

\* C1: in accumulate mode every cell of the grid returned by ev_to_2Dmap or
\* ev_to_3Dmap holds the sum of the weights of all the events that address
\* the cell (0 when none does), also when events share a cell.
C1_AccumulateSumsWeights ==
    /\ (op = "ev_to_2Dmap" /\ args.accumulate) =>
          \A c \in DOMAIN ret : ret[c] = SumWhere(Idx2(args), args.ws, c)
    /\ (op = "ev_to_3Dmap" /\ args.accumulate) =>
          \A c \in DOMAIN ret : ret[c] = SumWhere(Idx3(args), args.ws, c)

(***************************************************************************)
(* ev_to_channels                                                          *)
(***************************************************************************)
\* np.stack([...]) of two grids is the sequence of the two, channel 0 first
ev_to_channels(xs, ys, ps, size) ==
    LET pos == [k \in 1 .. Len(ps) |->
                   RMul(ps[k], IF RLt(R(0), ps[k]) THEN R(1) ELSE R(0))]
        neg == [k \in 1 .. Len(ps) |->
                   RMul(RNeg(ps[k]), IF RLt(ps[k], R(0)) THEN R(1) ELSE R(0))]
    IN  <<ev_to_2Dmap(xs, ys, pos, size, TRUE),
          ev_to_2Dmap(xs, ys, neg, size, TRUE)>>

(***************************************************************************)
(* ev_to_timesurface                                                       *)
(***************************************************************************)
\* longest timestamp of the model's streams, in ticks
MaxT == 3

\* timg / (cimg + 1e-9), cell by cell.  The quotient is kept as the pair of
\* its numerator and of the count in its denominator: its value is
\* q[1] / (q[2] + 1e-9).
np_divide_eps(timg, cimg) == [c \in DOMAIN timg |-> <<timg[c], cimg[c]>>]

\* the bin coordinate of every event: ts / ts[-1] * num_bins, the top edge
\* moved into the last bin
TimeBins(ts, num_bins) ==
    LET tbins == [k \in 1 .. Len(ts) |->
                     RMul(RDiv(ts[k], Last(ts)), R(num_bins))]
    IN  [k \in 1 .. Len(ts) |->
            IF tbins[k] = R(num_bins) THEN R(num_bins - 1) ELSE tbins[k]]

ev_to_timesurface(xs, ys, ts, ps, num_bins, size) ==
    LET tbins == TimeBins(ts, num_bins)
        size3 == <<num_bins>> \o size
        timg == ev_to_3Dmap(xs, ys, tbins, ts, size3, TRUE)
        cimg == ev_to_3Dmap(xs, ys, tbins, [k \in 1 .. Len(ps) |-> R(1)],
                            size3, TRUE)
    IN  np_divide_eps(timg, cimg)

Polarities == {R(-1), R(1)}

\* ascending timestamps
IsAscending(ts) == \A k \in 1 .. Len(ts) - 1 : RLe(ts[k], ts[k + 1])

Call_ev_to_timesurface ==
    /\ op = "none"
    /\ \E n \in 1 .. MaxEvents, num_bins \in 1 .. Bins :
       \E xs \in [1 .. n -> 0 .. W - 1], ys \in [1 .. n -> 0 .. H - 1],
          ts \in [1 .. n -> {R(t) : t \in 0 .. MaxT}],
          ps \in [1 .. n -> Polarities] :
           LET a == [xs |-> xs, ys |-> ys, ts |-> ts, ps |-> ps,
                     num_bins |-> num_bins, size |-> <<H, W>>]
           IN  /\ IsAscending(ts)
               /\ RLt(R(0), Last(ts))
               /\ op' = "ev_to_timesurface"
               /\ args' = a
               /\ mem' = a
               /\ ret' = ev_to_timesurface(xs, ys, ts, ps, num_bins, <<H, W>>)
               /\ shared' = {}
               /\ exc' = "none"
               /\ UNCHANGED <<np_version, hotVars>>

Call_ev_to_channels ==
    /\ op = "none"
    /\ \E n \in 0 .. MaxEvents :
       \E xs \in [1 .. n -> 0 .. W - 1], ys \in [1 .. n -> 0 .. H - 1],
          ps \in [1 .. n -> Polarities] :
           LET a == [xs |-> xs, ys |-> ys, ps |-> ps, size |-> <<H, W>>]
           IN  /\ op' = "ev_to_channels"
               /\ args' = a
               /\ mem' = a
               /\ ret' = ev_to_channels(xs, ys, ps, <<H, W>>)
               /\ shared' = {}
               /\ exc' = "none"
               /\ UNCHANGED <<np_version, hotVars>>

InitSurface == NoCall /\ HotIdle /\ np_version = AnyNumpy
NextSurface == Call_ev_to_timesurface
SpecSurface == InitSurface /\ [][NextSurface]_vars

IdxSurface(a) ==
    LET tbins == TimeBins(a.ts, a.num_bins)
    IN  [k \in 1 .. Len(a.xs) |-> <<astype_int(tbins[k]), a.ys[k], a.xs[k]>>]

RECURSIVE CountWhere(_, _)
CountWhere(idx, c) ==
    IF idx = <<>> THEN 0
    ELSE (IF Head(idx) = c THEN 1 ELSE 0) + CountWhere(Tail(idx), c)

\* C7: for every (bin, y, x) cell of the time surface the timestamp
\* accumulator is the sum of the timestamps of the events mapped to the cell
\* and the count accumulator is their number, so the cell is their mean
\* timestamp, also for two or more events in a cell; a cell without events
\* is 0.
C7_SurfaceIsMeanTimestamp ==
    op = "ev_to_timesurface" =>
        \A c \in DOMAIN ret :
            /\ ret[c][1] = SumWhere(IdxSurface(args), args.ts, c)
            /\ ret[c][2] = R(CountWhere(IdxSurface(args), c))
            /\ CountWhere(IdxSurface(args), c) = 0 => ret[c][1] = R(0)

(***************************************************************************)
(* ev_to_voxel                                                             *)
(***************************************************************************)
\* most bins of a voxel grid
VoxBins == 3
\* normalized timestamps are the multiples of 1 / TsDen in [0, 1]
TsDen == 4

\* np.round: to the nearest integer, a half to the even neighbour
np_round(a) ==
    LET fl == a[1] \div a[2]
        twice == RSub(RMul(R(2), a), R(2 * fl))
    IN  IF RLt(twice, R(1)) THEN R(fl)
        ELSE IF RLt(R(1), twice) THEN R(fl + 1)
        ELSE IF fl % 2 = 0 THEN R(fl) ELSE R(fl + 1)

\* np.clip(a, 0), called without a_max.  Up to numpy 2.0 a_max is a required
\* argument and the call raises TypeError; from 2.1 on it clips from below.
np_clip_raises(version) == version # ">=2.1"
np_clip_min(a, a_min) == RMax(a, a_min)

\* the weights of all events for bin b_idx
VoxelWeights(ts, b_idx) ==
    [k \in 1 .. Len(ts) |->
        np_clip_min(RSub(R(1), RAbs(RSub(ts[k], R(b_idx)))), R(0))]

\* the scaled (and, with round_ts, rounded) timestamps
VoxelTs(ts, num_bins, round_ts) ==
    LET scaled == [k \in 1 .. Len(ts) |-> RMul(ts[k], R(num_bins - 1))]
    IN  IF round_ts THEN [k \in 1 .. Len(ts) |-> np_round(scaled[k])]
        ELSE scaled

\* the exception that ends the call: the first np.clip of the loop
ev_to_voxel_exc(num_bins, version) ==
    IF num_bins > 0 /\ np_clip_raises(version) THEN "TypeError" ELSE "none"

\* the returned grid: slice b_idx is element b_idx + 1
ev_to_voxel(xs, ys, ts, ps, num_bins, size, round_ts) ==
    LET t == VoxelTs(ts, num_bins, round_ts)
    IN  [b \in 1 .. num_bins |->
            LET weights == VoxelWeights(t, b - 1)
            IN  ev_to_2Dmap(xs, ys,
                            [k \in 1 .. Len(ps) |-> RMul(ps[k], weights[k])],
                            size, TRUE)]

NormalizedTs == {Rat(t, TsDen) : t \in 0 .. TsDen}

Call_ev_to_voxel ==
    /\ op = "none"
    /\ \E n \in 0 .. MaxEvents, num_bins \in 1 .. VoxBins, round_ts \in BOOLEAN :
       \E xs \in [1 .. n -> 0 .. W - 1], ys \in [1 .. n -> 0 .. H - 1],
          ts \in [1 .. n -> NormalizedTs], ps \in [1 .. n -> Polarities] :
           LET a == [xs |-> xs, ys |-> ys, ts |-> ts, ps |-> ps,
                     num_bins |-> num_bins, size |-> <<H, W>>,
                     round_ts |-> round_ts]
               e == ev_to_voxel_exc(num_bins, np_version)
           IN  /\ IsAscending(ts)
               /\ op' = "ev_to_voxel"
               /\ args' = a
               /\ mem' = a
               /\ exc' = e
               /\ ret' = IF e = "none"
                         THEN ev_to_voxel(xs, ys, ts, ps, num_bins, <<H, W>>,
                                          round_ts)
                         ELSE <<>>
               /\ shared' = {}
               /\ UNCHANGED <<np_version, hotVars>>

InitVoxel == NoCall /\ HotIdle /\ np_version \in NumpyVersions
NextVoxel == Call_ev_to_voxel
SpecVoxel == InitVoxel /\ [][NextVoxel]_vars

\* the triangular kernel of the specification: max(0, 1 - |t_scaled - k|)
Triangle(t_scaled, k) == RMax(R(0), RSub(R(1), RAbs(RSub(t_scaled, R(k)))))

\* C8: for a single event of polarity p, slice k of the voxel grid holds
\* p * max(0, 1 - |t_scaled - k|) at the event's pixel: p in slice b and 0 in
\* the others when t_scaled = b, p/2 in slices b and b+1 when
\* t_scaled = b + 1/2, and nothing in a slice a bin or more away.
C8_VoxelTriangularKernel ==
    (op = "ev_to_voxel" /\ Len(args.xs) = 1 /\ ~args.round_ts) =>
        LET t_scaled == RMul(args.ts[1], R(args.num_bins - 1))
            px == <<args.ys[1], args.xs[1]>>
        IN  /\ exc = "none"
            /\ Len(ret) = args.num_bins
            /\ \A k \in 0 .. args.num_bins - 1 :
                  /\ ret[k + 1][px] = RMul(args.ps[1], Triangle(t_scaled, k))
                  /\ RLe(R(1), RAbs(RSub(t_scaled, R(k)))) =>
                        ret[k + 1][px] = R(0)
                  /\ t_scaled = R(k) => ret[k + 1][px] = args.ps[1]
                  /\ t_scaled = RAdd(R(k), Rat(1, 2)) =>
                        /\ ret[k + 1][px] = RMul(Rat(1, 2), args.ps[1])
                        /\ k + 2 <= args.num_bins
                        /\ ret[k + 2][px] = RMul(Rat(1, 2), args.ps[1])

\* the same with the numpy releases whose np.clip accepts the call
C8_KernelWhenClipAccepted ==
    (op = "ev_to_voxel" /\ Len(args.xs) = 1 /\ ~args.round_ts
        /\ np_version = ">=2.1") =>
        LET t_scaled == RMul(args.ts[1], R(args.num_bins - 1))
            px == <<args.ys[1], args.xs[1]>>
        IN  /\ exc = "none"
            /\ \A k \in 0 .. args.num_bins - 1 :
                  ret[k + 1][px] = RMul(args.ps[1], Triangle(t_scaled, k))

(***************************************************************************)
(* binary_search_array                                                     *)
(***************************************************************************)
\* longest array searched, and the largest value in it
MaxLen == 4
MaxVal == 4

\* an optional argument: None, or the one-element sequence of its value
None == <<>>
Some(v) == <<v>>

\* as binary_search_array, but the empty range answers right for every side
RECURSIVE binary_search_array_m(_, _, _, _, _)
binary_search_array_m(array, x, left, right, side) ==
    LET l == IF left = None THEN 0 ELSE left[1]
        r == IF right = None THEN Len(array) - 1 ELSE right[1]
        mid == l + ((r - l) \div 2)
    IN  IF l > r THEN r
        ELSE IF At(array, mid) = x THEN mid
        ELSE IF x < At(array, mid)
             THEN binary_search_array_m(array, x, Some(l), Some(mid - 1), "left")
             ELSE binary_search_array_m(array, x, Some(mid + 1), Some(r), "left")

\* The recursive calls pass array, x, left and right only: side takes its
\* default, "left", in every call but the outermost.
RECURSIVE binary_search_array(_, _, _, _, _)
binary_search_array(array, x, left, right, side) ==
    LET l == IF left = None THEN 0 ELSE left[1]
        r == IF right = None THEN Len(array) - 1 ELSE right[1]
        mid == l + ((r - l) \div 2)
    IN  IF l > r THEN (IF side = "left" THEN l ELSE r)
        ELSE IF At(array, mid) = x THEN mid
        ELSE IF x < At(array, mid)
             THEN binary_search_array(array, x, Some(l), Some(mid - 1), "left")
             ELSE binary_search_array(array, x, Some(mid + 1), Some(r), "left")

SortedArrays ==
    {a \in SeqsUpTo(0 .. MaxVal, MaxLen) :
        \A k \in 1 .. Len(a) - 1 : a[k] <= a[k + 1]}

Call_binary_search_array ==
    /\ op = "none"
    /\ \E array \in SortedArrays, x \in -1 .. MaxVal + 1, side \in {"left", "right"} :
           LET a == [array |-> array, x |-> x, side |-> side]
           IN  /\ op' = "binary_search_array"
               /\ args' = a
               /\ mem' = a
               /\ ret' = binary_search_array(array, x, None, None, side)
               /\ shared' = {}
               /\ exc' = "none"
               /\ UNCHANGED <<np_version, hotVars>>

InitSearch == NoCall /\ HotIdle /\ np_version = AnyNumpy
NextSearch == Call_binary_search_array
SpecSearch == InitSearch /\ [][NextSearch]_vars

Present(array, x) == \E k \in 0 .. Len(array) - 1 : At(array, k) = x

\* C2: on a sorted array, with default left and right and side = "left", the
\* search returns an index of x when x is in the array, and otherwise the
\* smallest index whose element is >= x, or len(array) when there is none.
C2_SearchLeft ==
    (op = "binary_search_array" /\ args.side = "left") =>
        LET A == args.array
            x == args.x
        IN  IF Present(A, x)
            THEN ret \in 0 .. Len(A) - 1 /\ At(A, ret) = x
            ELSE /\ ret \in 0 .. Len(A)
                 /\ \A k \in 0 .. Len(A) - 1 : (At(A, k) >= x) <=> (k >= ret)

\* a search with side = "left" has returned: once for a value of the array
\* that is found only after a halving, once for an absent value whose
\* insertion point is inside the array
C2_Witness ==
    /\ op = "binary_search_array"
    /\ args.side = "left"
    /\ Len(args.array) >= 3
    /\ \/ Present(args.array, args.x) /\ ret = 0
       \/ ~Present(args.array, args.x) /\ ret \in 1 .. Len(args.array) - 1

\* C3: on a sorted array, with side = "right" and x not in the array, the
\* search returns the largest index whose element is <= x, or -1 when there
\* is none, for arrays of every length.
C3_SearchRight ==
    (op = "binary_search_array" /\ args.side = "right"
        /\ ~Present(args.array, args.x)) =>
        LET A == args.array
            x == args.x
        IN  /\ ret \in -1 .. Len(A) - 1
            /\ \A k \in 0 .. Len(A) - 1 : (At(A, k) <= x) <=> (k <= ret)

(***************************************************************************)
(* event_formatting                                                        *)
(***************************************************************************)
\* longest stream normalized
MaxStream == 3
\* timestamps that are already normalized are the multiples of 1 / NormTicks
NormTicks == 2
\* largest pixel coordinate of a stream
MaxCoord == 1

RECURSIVE SeqMin(_)
SeqMin(s) ==
    IF Len(s) = 1 THEN s[1]
    ELSE LET m == SeqMin(Tail(s)) IN IF RLt(m, Head(s)) THEN m ELSE Head(s)

\* astype(np.int32) of a coordinate array: a new array of truncated values
astype_int32(a) == [k \in 1 .. Len(a) |-> R(astype_int(a[k]))]
\* astype(np.float32): a new array of the same values
astype_float32(a) == [k \in 1 .. Len(a) |-> a[k]]

\* as event_formatting, but polarities are remapped when min(ps) <= 0
event_formatting_m(xs, ys, ts, ps) ==
    LET ts32 == astype_float32(ts)
        ps32 == astype_float32(ps)
    IN  [xs |-> astype_int32(xs),
         ys |-> astype_int32(ys),
         ts |-> [k \in 1 .. Len(ts32) |->
                    RDiv(RSub(ts32[k], ts32[1]), RSub(Last(ts32), ts32[1]))],
         ps |-> IF RLe(SeqMin(ps32), R(0))
                THEN [k \in 1 .. Len(ps32) |->
                         RSub(RMul(R(2), ps32[k]), R(1))]
                ELSE ps32]

event_formatting(xs, ys, ts, ps) ==
    LET ts32 == astype_float32(ts)
        ps32 == astype_float32(ps)
    IN  [xs |-> astype_int32(xs),
         ys |-> astype_int32(ys),
         ts |-> [k \in 1 .. Len(ts32) |->
                    RDiv(RSub(ts32[k], ts32[1]), RSub(Last(ts32), ts32[1]))],
         ps |-> IF SeqMin(ps32) = R(0)
                THEN [k \in 1 .. Len(ps32) |->
                         RSub(RMul(R(2), ps32[k]), R(1))]
                ELSE ps32]

\* timestamps of a stream: normalized ones, and two raw ones
StreamTs == {Rat(t, NormTicks) : t \in 0 .. NormTicks} \cup {R(2), R(3)}
\* polarities come in one of two encodings
StreamPs(n) == [1 .. n -> {R(0), R(1)}] \cup [1 .. n -> {R(-1), R(1)}]

Call_event_formatting ==
    /\ op = "none"
    /\ \E n \in 2 .. MaxStream :
       \E xs \in [1 .. n -> {R(0), R(MaxCoord)}],
          ys \in {[k \in 1 .. n |-> R(y)] : y \in {0, MaxCoord}},
          ts \in [1 .. n -> StreamTs], ps \in StreamPs(n) :
           LET a == [xs |-> xs, ys |-> ys, ts |-> ts, ps |-> ps]
           IN  /\ IsAscending(ts)
               /\ ts[1] # Last(ts)
               /\ op' = "event_formatting"
               /\ args' = a
               /\ mem' = a
               /\ ret' = event_formatting(xs, ys, ts, ps)
               /\ shared' = {}
               /\ exc' = "none"
               /\ UNCHANGED <<np_version, hotVars>>

InitNorm == NoCall /\ HotIdle /\ np_version = AnyNumpy
NextNorm == Call_event_formatting
SpecNorm == InitNorm /\ [][NextNorm]_vars

\* a stream that the specification calls already normalized
IsNormalized(a) ==
    /\ Len(a.ts) >= 2
    /\ IsAscending(a.ts)
    /\ a.ts[1] # Last(a.ts)
    /\ \A k \in 1 .. Len(a.ts) : RLe(R(0), a.ts[k]) /\ RLe(a.ts[k], R(1))
    /\ \A k \in 1 .. Len(a.ps) : a.ps[k] \in {R(-1), R(1)}

SameStream(r, a) ==
    r.xs = a.xs /\ r.ys = a.ys /\ r.ts = a.ts /\ r.ps = a.ps

Reformatted(r) == event_formatting(r.xs, r.ys, r.ts, r.ps)

\* C9 as stated: a stream of length >= 2 with non-zero span, ascending
\* timestamps in [0,1] and polarities in {-1,+1} is returned with the same
\* values; and formatting a formatted stream changes nothing.
C9_NormalizedStreamUnchanged ==
    op = "event_formatting" =>
        /\ IsNormalized(args) => SameStream(ret, args)
        /\ SameStream(Reformatted(ret), ret)

\* C9 amended: a stream of length >= 2 with ascending timestamps that start
\* at 0 and end at 1 and polarities in {-1,+1} is returned with the same
\* values; and formatting a formatted stream changes nothing.
C9_UnitSpanStreamUnchanged ==
    op = "event_formatting" =>
        /\ (IsNormalized(args) /\ args.ts[1] = R(0) /\ Last(args.ts) = R(1))
              => SameStream(ret, args)
        /\ SameStream(Reformatted(ret), ret)

\* a stream with timestamps 0 .. 1, an inner timestamp and both polarities
\* has been formatted
C9_Witness ==
    /\ op = "event_formatting"
    /\ IsNormalized(args)
    /\ args.ts[1] = R(0)
    /\ Last(args.ts) = R(1)
    /\ \E k \in 1 .. Len(args.ts) : args.ts[k] \notin {R(0), R(1)}
    /\ \E k \in 1 .. Len(args.ps) : args.ps[k] = R(-1)
    /\ \E k \in 1 .. Len(args.ps) : args.ps[k] = R(1)
    /\ SameStream(ret, args)

(***************************************************************************)
(* get_hot_event_mask                                                      *)
(*                                                                         *)
(* The rate map event_rate is the caller's array: it lives across calls.   *)
(* A call is HotCall (the mask is made, the gate is tested), then one      *)
(* HotIter for every pass of the loop, then HotReturn.  rate0 is the rate  *)
(* map as the running call found it.                                       *)
(***************************************************************************)
\* largest max_px a caller passes
MaxPx == 2
\* default of min_obvs
min_obvs_default == 5
\* default of max_rate, 0.8
max_rate_default == Rat(4, 5)

\* shape of the rate map, and the most hot pixels on it when the caller's
\* loop starts
HotH == 2
HotW == 3
MaxHot == 2

\* rates of the model: the hot ones are above max_rate, the others not
HotRates == {R(1), R(2)}
Background == {R(0), Rat(1, 2)}

Shape == <<HotH, HotW>>
Cells == Cells2(Shape)

\* the rate maps the caller starts with: a background rate, and a hot rate
\* on at most MaxHot pixels
RateMaps ==
    UNION {{[c \in Cells |-> IF c \in S THEN f[c] ELSE b] :
                f \in [S -> HotRates], b \in Background} :
           S \in {T \in SUBSET Cells : Cardinality(T) <= MaxHot}}

\* position of a cell in the flattened (row-major) array
Flat(c, shape) == c[1] * shape[2] + c[2]

CellMax(a) == CHOOSE m \in {a[c] : c \in DOMAIN a} :
                  \A c \in DOMAIN a : RLe(a[c], m)

\* np.argmax: the flat index of the first cell that holds the maximum
np_argmax(a, shape) ==
    LET at == {Flat(c, shape) : c \in {d \in DOMAIN a : a[d] = CellMax(a)}}
    IN  CHOOSE k \in at : \A j \in at : k <= j

\* as HotGate, but idx = min_obvs already filters
HotGate_m(idx, min_obvs) == idx >= min_obvs

\* the gate of the filter
HotGate(idx, min_obvs) == idx > min_obvs

\* as HotIndex, but the flat index is taken to run down the columns
HotIndex_m(argmax, shape) ==
    <<[dtype |-> "float64", v |-> R(argmax % shape[1])],
      [dtype |-> "int64", v |-> R(argmax \div shape[1])]>>

\* index = (np.divide(argmax, shape[1]), argmax % shape[1]): np.divide is the
\* true division, so the row is a float64, whole or not; the column is an
\* integer
HotIndex(argmax, shape) ==
    <<[dtype |-> "float64", v |-> Rat(argmax, shape[2])],
      [dtype |-> "int64", v |-> R(argmax % shape[2])]>>

\* a[index] with a float in index: since numpy 1.12 an IndexError ("only
\* integers, slices ... are valid indices"); before, a deprecation warning,
\* and the float is truncated
IndexRaises(index, version) ==
    /\ version # "<1.12"
    /\ \E k \in 1 .. Len(index) : index[k].dtype = "float64"

IndexCell(index) == [k \in 1 .. Len(index) |-> astype_int(index[k].v)]

HotCall ==
    /\ pc \in {"idle", "returned", "raised"}
    /\ \E idx \in {min_obvs_default, min_obvs_default + 1}, max_px \in 0 .. MaxPx :
          /\ hp' = [idx |-> idx, max_px |-> max_px,
                    min_obvs |-> min_obvs_default,
                    max_rate |-> max_rate_default]
          /\ mask' = [c \in DOMAIN event_rate |-> R(1)]
          /\ rate0' = event_rate
          /\ i' = 0
          /\ pc' = IF HotGate(idx, min_obvs_default) THEN "loop" ELSE "return"
    /\ UNCHANGED <<event_rate, np_version, callVars>>

\* one pass of "for i in range(max_px)"
HotIter ==
    /\ pc = "loop"
    /\ IF i >= hp.max_px
       THEN /\ pc' = "return"
            /\ UNCHANGED <<event_rate, mask, i>>
       ELSE LET argmax == np_argmax(event_rate, Shape)
                index == HotIndex(argmax, Shape)
                cell == IndexCell(index)
            IN  IF IndexRaises(index, np_version)
                THEN /\ pc' = "raised"
                     /\ UNCHANGED <<event_rate, mask, i>>
                ELSE IF RLt(hp.max_rate, event_rate[cell])
                THEN /\ event_rate' = [event_rate EXCEPT ![cell] = R(0)]
                     /\ mask' = [mask EXCEPT ![cell] = R(0)]
                     /\ i' = i + 1
                     /\ pc' = "loop"
                ELSE /\ pc' = "return"
                     /\ UNCHANGED <<event_rate, mask, i>>
    /\ UNCHANGED <<hp, rate0, np_version, callVars>>

HotReturn ==
    /\ pc = "return"
    /\ pc' = "returned"
    /\ UNCHANGED <<event_rate, mask, i, hp, rate0, np_version, callVars>>

InitHot ==
    /\ NoCall
    /\ np_version \in NumpyVersions
    /\ event_rate \in RateMaps
    /\ mask = <<>>
    /\ pc = "idle"
    /\ i = 0
    /\ hp = <<>>
    /\ rate0 = <<>>
NextHot == HotCall \/ HotIter \/ HotReturn
SpecHot == InitHot /\ [][NextHot]_vars

CallEnded == pc \in {"returned", "raised"}
\* the cells this call zeroed, and the zeros of its mask
Zeroed == {c \in Cells : event_rate[c] # rate0[c]}
MaskZeros == {c \in Cells : mask[c] = R(0)}

\* C4: after a call with idx > min_obvs the maximum left in the rate map is
\* <= max_rate or exactly max_px cells were zeroed by the call, and the
\* returned mask has as many zeros as cells were zeroed.
C4_FilterPostcondition ==
    (CallEnded /\ hp.idx > hp.min_obvs) =>
        /\ pc = "returned"
        /\ \/ RLe(CellMax(event_rate), hp.max_rate)
           \/ Cardinality(Zeroed) = hp.max_px
        /\ Cardinality(MaskZeros) = Cardinality(Zeroed)

\* the same where a float is still accepted as an index
C4_PostconditionWithFloatIndex ==
    (CallEnded /\ hp.idx > hp.min_obvs /\ np_version = "<1.12") =>
        /\ pc = "returned"
        /\ \/ RLe(CellMax(event_rate), hp.max_rate)
           \/ Cardinality(Zeroed) = hp.max_px
        /\ Cardinality(MaskZeros) = Cardinality(Zeroed)

\* C5: a call with idx <= min_obvs returns a mask of ones and leaves the
\* rate map as it found it, whatever the rates are.
C5_GateLeavesAllUntouched ==
    (pc \in {"loop", "return", "returned", "raised"}
        /\ hp.idx <= hp.min_obvs) =>
        /\ pc \in {"return", "returned"}
        /\ \A c \in Cells : mask[c] = R(1)
        /\ event_rate = rate0

\* a call below the gate has returned on a map with a rate above max_rate
C5_Witness ==
    /\ pc = "returned"
    /\ hp.idx <= hp.min_obvs
    /\ \E c \in Cells : RLt(hp.max_rate, event_rate[c])
    /\ \A c \in Cells : mask[c] = R(1)

\* C10: the only write to the rate map sets to 0 a cell that holds the
\* maximum of the map and exceeds max_rate; the mask entry set to 0 is that
\* cell; every other cell of the rate map and of the mask keeps its value:
\* no pixel with a rate <= max_rate is zeroed or masked.
C10_GreedyStep ==
    [][\A c \in Cells :
          /\ event_rate'[c] # event_rate[c] =>
                /\ pc = "loop"
                /\ event_rate'[c] = R(0)
                /\ event_rate[c] = CellMax(event_rate)
                /\ RLt(hp.max_rate, event_rate[c])
                /\ mask'[c] = R(0)
                /\ \A d \in Cells \ {c} :
                      event_rate'[d] = event_rate[d] /\ mask'[d] = mask[d]
          /\ (pc = "loop" /\ mask'[c] # mask[c]) =>
                /\ mask'[c] = R(0)
                /\ event_rate'[c] = R(0)
                /\ RLt(hp.max_rate, event_rate[c])]_vars

\* a call has zeroed and masked a hot pixel and kept a pixel that has a
\* rate > 0 and <= max_rate
C10_Witness ==
    /\ pc = "returned"
    /\ \E c \in Cells :
          /\ RLt(hp.max_rate, rate0[c])
          /\ event_rate[c] = R(0)
          /\ mask[c] = R(0)
    /\ \E c \in Cells :
          /\ RLt(R(0), rate0[c])
          /\ RLe(rate0[c], hp.max_rate)
          /\ event_rate[c] = rate0[c]
          /\ mask[c] = R(1)

(***************************************************************************)
(* create_polarity_mask                                                    *)
(***************************************************************************)
\* np.stack([ps, ps]) is a new array; the three updates write into it
create_polarity_mask(ps) ==
    LET stacked == <<ps, ps>>
        row0 == [k \in 1 .. Len(ps) |->
                    IF RLt(stacked[1][k], R(0)) THEN R(0) ELSE stacked[1][k]]
        row1 == [k \in 1 .. Len(ps) |->
                    IF RLt(R(0), stacked[2][k]) THEN R(0) ELSE stacked[2][k]]
    IN  <<row0, [k \in 1 .. Len(ps) |-> RMul(row1[k], R(-1))]>>

Call_create_polarity_mask ==
    /\ op = "none"
    /\ \E n \in 0 .. MaxEvents :
       \E ps \in [1 .. n -> Polarities] :
           LET a == [ps |-> ps]
           IN  /\ op' = "create_polarity_mask"
               /\ args' = a
               /\ mem' = a
               /\ ret' = create_polarity_mask(ps)
               /\ shared' = {}
               /\ exc' = "none"
               /\ UNCHANGED <<np_version, hotVars>>

(***************************************************************************)
(* augment_frames, augment_flowmap                                         *)
(*                                                                         *)
(* np.flip returns a view: an array without storage of its own, that reads *)
(* and writes the storage of the array it was made from.  A view is the    *)
(* set of the axes along which it reverses that storage.                   *)
(***************************************************************************)
\* np.flip(view, axis)
np_flip(view, axis) ==
    IF axis \in view THEN view \ {axis} ELSE view \cup {axis}

\* the cell of the storage that cell c of the view stands for
Behind(view, c, shape) ==
    [k \in 1 .. Len(c) |-> IF (k - 1) \in view THEN shape[k] - 1 - c[k] ELSE c[k]]

\* the values seen through a view of storage buf
ViewOf(buf, view, shape) == [c \in DOMAIN buf |-> buf[Behind(view, c, shape)]]

\* view[ch, :, :] *= k, written through to the storage
imul_channel(buf, view, shape, ch, k) ==
    LET hit == {Behind(view, c, shape) : c \in {d \in DOMAIN buf : d[1] = ch}}
    IN  [c \in DOMAIN buf |-> IF c \in hit THEN RMul(buf[c], k) ELSE buf[c]]

\* the view returned for img
augment_frames(augmentation) ==
    LET v1 == IF "Horizontal" \in augmentation THEN np_flip({}, 1) ELSE {}
    IN  IF "Vertical" \in augmentation THEN np_flip(v1, 0) ELSE v1

\* the view returned for flowmap, and the storage of flowmap after the call
augment_flowmap(flowmap, augmentation, shape) ==
    LET v1 == IF "Horizontal" \in augmentation THEN np_flip({}, 2) ELSE {}
        b1 == IF "Horizontal" \in augmentation
              THEN imul_channel(flowmap, v1, shape, 0, R(-1)) ELSE flowmap
        v2 == IF "Vertical" \in augmentation THEN np_flip(v1, 1) ELSE v1
        b2 == IF "Vertical" \in augmentation
              THEN imul_channel(b1, v2, shape, 1, R(-1)) ELSE b1
    IN  [view |-> v2, buf |-> b2]

Flips == SUBSET {"Horizontal", "Vertical"}

Call_augment_frames ==
    /\ op = "none"
    /\ \E img \in [Cells2(<<H, W>>) -> {R(0), R(1)}], augmentation \in Flips :
           LET a == [img |-> img, augmentation |-> augmentation]
           IN  /\ op' = "augment_frames"
               /\ args' = a
               /\ mem' = a
               /\ ret' = ViewOf(img, augment_frames(augmentation), <<H, W>>)
               /\ shared' = {"img"}
               /\ exc' = "none"
               /\ UNCHANGED <<np_version, hotVars>>

Call_augment_flowmap ==
    /\ op = "none"
    /\ \E flowmap \in [Cells3(<<2, H, W>>) -> Polarities],
          augmentation \in Flips :
           LET a == [flowmap |-> flowmap, augmentation |-> augmentation]
               r == augment_flowmap(flowmap, augmentation, <<2, H, W>>)
           IN  /\ op' = "augment_flowmap"
               /\ args' = a
               /\ mem' = [a EXCEPT !.flowmap = r.buf]
               /\ ret' = ViewOf(r.buf, r.view, <<2, H, W>>)
               /\ shared' = {"flowmap"}
               /\ exc' = "none"
               /\ UNCHANGED <<np_version, hotVars>>

(***************************************************************************)
(* augment_events                                                          *)
(***************************************************************************)
\* longest augmentation list
MaxAug == 2

Mechanisms == {"Horizontal", "Vertical", "Polarity", "Transpose", "VariNum"}

\* The local names xs and ys are bound to an array: its values (val) and
\* the caller's array whose storage it is (base, "new" for an array made in
\* the call).  ps stays bound to the caller's array, which "ps *= -1"
\* updates in place.
RECURSIVE augment_events(_, _, _)
augment_events(b, augmentation, resolution) ==
    IF augmentation = <<>> THEN b
    ELSE LET mechanism == Head(augmentation)
             nb == IF mechanism = "Horizontal"
                   THEN [b EXCEPT !.xs =
                            [base |-> "new",
                             val |-> [k \in 1 .. Len(b.xs.val) |->
                                         resolution[2] - 1 - b.xs.val[k]]]]
                   ELSE IF mechanism = "Vertical"
                   THEN [b EXCEPT !.ys =
                            [base |-> "new",
                             val |-> [k \in 1 .. Len(b.ys.val) |->
                                         resolution[1] - 1 - b.ys.val[k]]]]
                   ELSE IF mechanism = "Polarity"
                   THEN [b EXCEPT !.ps.val =
                            [k \in 1 .. Len(b.ps.val) |->
                                RMul(b.ps.val[k], R(-1))]]
                   ELSE IF mechanism = "Transpose"
                   THEN [b EXCEPT !.xs = b.ys, !.ys = b.xs]
                   ELSE b
         IN  augment_events(nb, Tail(augmentation), resolution)

Call_augment_events ==
    /\ op = "none"
    /\ \E n \in 0 .. MaxEvents :
       \E xs \in [1 .. n -> 0 .. W - 1], ys \in [1 .. n -> 0 .. H - 1],
          ps \in [1 .. n -> Polarities],
          augmentation \in SeqsUpTo(Mechanisms, MaxAug) :
           LET a == [xs |-> xs, ys |-> ys, ps |-> ps,
                     augmentation |-> augmentation, resolution |-> <<H, W>>]
               b == augment_events([xs |-> [base |-> "xs", val |-> xs],
                                    ys |-> [base |-> "ys", val |-> ys],
                                    ps |-> [base |-> "ps", val |-> ps]],
                                   augmentation, <<H, W>>)
           IN  /\ op' = "augment_events"
               /\ args' = a
               /\ mem' = [a EXCEPT !.ps = b.ps.val]
               /\ ret' = <<b.xs.val, b.ys.val, b.ps.val>>
               /\ shared' = {b.xs.base, b.ys.base, b.ps.base} \ {"new"}
               /\ exc' = "none"
               /\ UNCHANGED <<np_version, hotVars>>

(***************************************************************************)
(* All the operations but the hot-pixel filter                             *)
(***************************************************************************)
InitPure == NoCall /\ HotIdle /\ np_version \in NumpyVersions
NextPure ==
    \/ Call_ev_to_2Dmap
    \/ Call_ev_to_3Dmap
    \/ Call_ev_to_channels
    \/ Call_ev_to_voxel
    \/ Call_ev_to_timesurface
    \/ Call_event_formatting
    \/ Call_binary_search_array
    \/ Call_create_polarity_mask
    \/ Call_augment_frames
    \/ Call_augment_flowmap
    \/ Call_augment_events
SpecPure == InitPure /\ [][NextPure]_vars

\* C6: after a call of a rasterizer, of event_formatting, of
\* binary_search_array, of create_polarity_mask or of an augmentation
\* function, every array of the caller holds the values it held before the
\* call, and the returned arrays share no storage with an argument.
C6_CallsArePure ==
    op # "none" => (mem = args /\ shared = {})

\* the same for the operations that are not augmentations
C6_NonAugmentationsArePure ==
    op \notin {"none", "augment_frames", "augment_flowmap", "augment_events"}
        => (mem = args /\ shared = {})

====
